---- MODULE Spec2Model ----
(***************************************************************************)
(* Model of the mail_parser NIF (native/mail_parser_nif/src/lib.rs):       *)
(* the recursive attachment extraction, the mime-type filter and the      *)
(* batch disk writer with rollback, together with the two entry points     *)
(* extract_nested_attachments and extract_attachments_to_disk.             *)
(*                                                                         *)
(* Option<T> is modelled as a sequence: <<>> is None, <<x>> is Some(x).    *)
(* Strings are TLA+ strings, byte buffers are sequences of numbers.        *)
(***************************************************************************)
EXTENDS Integers, Sequences, FiniteSets, TLC

VARIABLES
    pc,            \* position of the call: "call", "filter", "mkdir", "write", "rollback", "done"
    nif,           \* entry point that was called ("none" before the call)
    raw_message,   \* input: [wellformed, message]; what Message::parse makes of the bytes
    opts,          \* input: the options term of extract_attachments_to_disk
    dirs,          \* file system: set of existing directories
    files,         \* file system: path -> Option<bytes>
    dirs0,         \* file system before the call (never changes)
    files0,        \* file system before the call (never changes)
    attachments,   \* lib.rs:169 attachments / input of filter_by_mime_type
    mime_types,    \* lib.rs:163 mime_types
    directory,     \* lib.rs:164 directory
    prefix,        \* lib.rs:165 prefix
    batch,         \* lib.rs:170 filtered_attachments, the list write_to_disk is given
    idx,           \* lib.rs:128 position of the for loop (1-based, next attachment)
    filenames,     \* lib.rs:126 filenames
    cleanup,       \* lib.rs:138 what the rollback loop has still to delete
    err,           \* lib.rs:136 err, the pending error of the failed write (Option)
    result,        \* value returned to the caller
    log            \* history: every file system call made, in order

vars == <<pc, nif, raw_message, opts, dirs, files, dirs0, files0, attachments,
          mime_types, directory, prefix, batch, idx, filenames, cleanup, err,
          result, log>>

None == <<>>
Some(x) == <<x>>

(***************************************************************************)
(* Bounds of the model.                                                    *)
(***************************************************************************)
MaxNodes == 4        \* parts in a message tree given to extract (all levels)
MaxStoreNodes == 3   \* parts in a message tree given to extract-and-store
MaxLen == 3          \* attachments in a list given to the filter alone
MaxAllow == 2        \* entries of an allow-list given to the filter alone

(***************************************************************************)
(* The message part tree (mail_parser::Message, the external parser's      *)
(* output).  A message is the sequence of its parts; a part is a leaf      *)
(* attachment, a nested message, or other content that                     *)
(* Message::attachments() does not yield.                                  *)
(***************************************************************************)
Part(kind, attachment_name, content_type, contents, message) ==
    [kind |-> kind, attachment_name |-> attachment_name,
     content_type |-> content_type, contents |-> contents, message |-> message]

ContentType(ctype, subtype) == [ctype |-> ctype, subtype |-> subtype]

LeafParts ==
    { Part("leaf", Some("a"), Some(ContentType("image", Some("png"))), <<1, 2>>, <<>>),
      Part("leaf", Some("a"), Some(ContentType("text", None)), <<3>>, <<>>),
      Part("leaf", None, None, <<1, 2>>, <<>>) }

OtherPart == Part("other", None, None, <<>>, <<>>)

NestedPart(m) == Part("message", None, Some(ContentType("message", Some("rfc822"))), <<>>, m)

\* Messages with exactly n parts in all, nested ones counted.
RECURSIVE MessagesOfSize(_)
MessagesOfSize(n) ==
    IF n = 0 THEN { <<>> }
    ELSE { <<p>> \o rest : p \in LeafParts \cup {OtherPart}, rest \in MessagesOfSize(n - 1) }
         \cup UNION { { <<NestedPart(inner)>> \o rest :
                            inner \in MessagesOfSize(k), rest \in MessagesOfSize(n - 1 - k) }
                      : k \in 0 .. (n - 1) }

Messages(n) == UNION { MessagesOfSize(k) : k \in 0 .. n }

\* Message::parse: None for bytes that are no message, Some(tree) otherwise.
Parse(raw) == IF raw.wellformed THEN Some(raw.message) ELSE None

Malformed == [wellformed |-> FALSE, message |-> <<>>]
WellFormed(m) == [wellformed |-> TRUE, message |-> m]

(***************************************************************************)
(* Attachment and its conversion from a message part.                      *)
(***************************************************************************)
ContentBytes_new(content_bytes) == [i \in 1 .. Len(content_bytes) |-> content_bytes[i]]

From(part) ==
    LET name == IF part.attachment_name = None THEN "untitled"
                ELSE part.attachment_name[1]
        content_bytes == ContentBytes_new(part.contents)
        content_type ==
            IF part.content_type = None THEN None
            ELSE LET roottype == part.content_type[1].ctype
                     subtype == part.content_type[1].subtype
                 IN  Some(IF subtype # None THEN roottype \o "/" \o subtype[1]
                          ELSE roottype)
    IN  [name |-> name, content_type |-> content_type, content_bytes |-> content_bytes]

\* Message::attachments(): the attachment parts of the message, in order.
MessageAttachments(message) == SelectSeq(message, LAMBDA p : p.kind # "other")

\* MessagePart::message(): Some(nested message) or None.
PartMessage(part) == IF part.kind = "message" THEN Some(part.message) ELSE None

RECURSIVE get_attachments(_)
RECURSIVE FlatMapAttachments(_)

\* A faulty variant: nested attachments are appended after the message's own leaves.
get_attachments_breadth(message) ==
    LET parts == MessageAttachments(message)
        own == SelectSeq(parts, LAMBDA p : PartMessage(p) = None)
        nested == SelectSeq(parts, LAMBDA p : PartMessage(p) # None)
        RECURSIVE walk(_)
        walk(ps) == IF ps = <<>> THEN <<>>
                    ELSE get_attachments(PartMessage(Head(ps))[1]) \o walk(Tail(ps))
    IN  [i \in 1 .. Len(own) |-> From(own[i])] \o walk(nested)

FlatMapAttachments(parts) ==
    IF parts = <<>> THEN <<>>
    ELSE (IF PartMessage(Head(parts)) # None
          THEN get_attachments(PartMessage(Head(parts))[1])
          ELSE <<From(Head(parts))>>) \o FlatMapAttachments(Tail(parts))

get_attachments(message) == FlatMapAttachments(MessageAttachments(message))

(***************************************************************************)
(* The mime filter.                                                        *)
(***************************************************************************)
Contains(seq, x) == \E i \in 1 .. Len(seq) : seq[i] = x

\* A faulty variant: no special case for the empty allow-list.
filter_by_mime_type_noempty(atts, types) ==
    SelectSeq(atts, LAMBDA a : a.content_type # None /\ Contains(types, a.content_type[1]))

filter_by_mime_type(atts, types) ==
    IF types = <<>> THEN atts
    ELSE SelectSeq(atts, LAMBDA a :
             IF a.content_type # None THEN Contains(types, a.content_type[1]) ELSE FALSE)

(***************************************************************************)
(* Options of extract_attachments_to_disk.  A term is [type, val]; val is  *)
(* the list of strings the term carries (one string for a binary).         *)
(***************************************************************************)
Term(type, val) == [type |-> type, val |-> val]
Opt(atom, term) == [atom |-> atom, term |-> term]
Keyword(items) == [is_keyword |-> TRUE, items |-> items]

\* opts.decode::<Vec<(Atom, Term)>>().unwrap_or_default()
DecodeOpts(o) == IF o.is_keyword THEN o.items ELSE <<>>

Ok(v) == [ok |-> TRUE, val |-> v]
BadArg(v) == [ok |-> FALSE, val |-> v]

\* The term of the first entry whose atom is `atom` (the for loop with its return).
FirstOpt(opts_list, atom) ==
    LET hits == SelectSeq(opts_list, LAMBDA o : o.atom = atom)
    IN  IF hits = <<>> THEN None ELSE Some(hits[1].term)

get_mime_types_from_opts(opts_list) ==
    LET term == FirstOpt(opts_list, "mime_types")
    IN  IF term = None THEN Ok(<<>>)
        ELSE IF term[1].type = "strings" THEN Ok(term[1].val) ELSE BadArg(<<>>)

get_directory_from_opts(opts_list) ==
    LET term == FirstOpt(opts_list, "directory")
    IN  IF term = None THEN Ok(".")
        ELSE IF term[1].type = "string" THEN Ok(term[1].val[1]) ELSE BadArg("")

get_prefix_from_opts(opts_list) ==
    LET term == FirstOpt(opts_list, "prefix")
    IN  IF term = None THEN Ok("")
        ELSE IF term[1].type = "string" THEN Ok(term[1].val[1]) ELSE BadArg("")

OptsSet ==
    { [is_keyword |-> FALSE, items |-> <<Opt("prefix", Term("string", <<"p">>))>>],
      Keyword(<<>>),
      Keyword(<<Opt("mime_types", Term("strings", <<"image/png">>))>>),
      Keyword(<<Opt("directory", Term("string", <<"out/new">>)),
                Opt("prefix", Term("string", <<"p">>))>>),
      Keyword(<<Opt("prefix", Term("string", <<"p">>)),
                Opt("mime_types", Term("strings", <<"text", "image">>)),
                Opt("prefix", Term("atom", <<>>))>>),
      Keyword(<<Opt("mime_types", Term("atom", <<>>))>>),
      Keyword(<<Opt("directory", Term("atom", <<>>))>>),
      Keyword(<<Opt("directory", Term("string", <<"out/new">>)),
                Opt("prefix", Term("atom", <<>>))>>) }

(***************************************************************************)
(* The file system: the directories that exist and the content of each     *)
(* file path.  Path::new(directory).join(filename), for a plain file name, *)
(* is the pair <<directory, filename>>.                                    *)
(***************************************************************************)
Join(dir, filename) == <<dir, filename>>

\* The directories create_dir_all has to make for a path, outermost first.
Ancestors(dir) ==
    IF dir = "out/new" THEN <<"out", "out/new">> ELSE <<dir>>

Range(seq) == { seq[i] : i \in 1 .. Len(seq) }

Destinations == {".", "out/new"}
FileNames == {"a", "untitled", "pa", "puntitled"}
FilePaths == { Join(d, f) : d \in Destinations, f \in FileNames }

OldBytes == <<9>>

\* File systems a call can find: "." exists, "out" and "out/new" may, and each
\* existing destination is either empty or holds a file under every name.
FsStates ==
    { fs \in [dirs : { {"."}, {".", "out"}, {".", "out", "out/new"} },
              populated : SUBSET Destinations] : fs.populated \subseteq fs.dirs }

FilesOf(fs) == [fp \in FilePaths |-> IF fp[1] \in fs.populated THEN Some(OldBytes) ELSE None]

(***************************************************************************)
(* Results returned to the caller.                                         *)
(***************************************************************************)
NoResult == [tag |-> "none", atts |-> <<>>, names |-> <<>>, msg |-> ""]
OkAttachments(atts) == [tag |-> "ok", atts |-> atts, names |-> <<>>, msg |-> ""]
OkFilenames(names) == [tag |-> "ok", atts |-> <<>>, names |-> names, msg |-> ""]
ErrorAtom == [tag |-> "error_atom", atts |-> <<>>, names |-> <<>>, msg |-> "error"]
ErrorBadArg == [tag |-> "badarg", atts |-> <<>>, names |-> <<>>, msg |-> ""]
\* Error::Term(format!("Failed to write to disk: {}", err))
ErrorTerm(e) == [tag |-> "error_term", atts |-> <<>>, names |-> <<>>,
                 msg |-> "Failed to write to disk: " \o e]

LogEntry(op, path, res) == [op |-> op, path |-> path, res |-> res]

(***************************************************************************)
(* extract_nested_attachments (lib.rs:150-156).                            *)
(***************************************************************************)
extract_nested_attachments ==
    /\ pc = "call"
    /\ nif' = "extract_nested_attachments"
    /\ result' = IF Parse(raw_message) # None
                 THEN OkAttachments(get_attachments(Parse(raw_message)[1]))
                 ELSE ErrorAtom
    /\ pc' = "done"
    /\ UNCHANGED <<raw_message, opts, dirs, files, dirs0, files0, attachments,
                   mime_types, directory, prefix, batch, idx, filenames, cleanup,
                   err, log>>

\* A faulty variant of extract_attachments_to_disk: the destination directory is
\* made as soon as the options are decoded, before the message is parsed.
extract_attachments_to_disk_mkdir_first ==
    /\ pc = "call"
    /\ nif' = "extract_attachments_to_disk"
    /\ LET opts_list == DecodeOpts(opts)
           mt == get_mime_types_from_opts(opts_list)
           dir == get_directory_from_opts(opts_list)
           pre == get_prefix_from_opts(opts_list)
       IN  IF ~mt.ok \/ ~dir.ok \/ ~pre.ok
           THEN /\ result' = ErrorBadArg
                /\ pc' = "done"
                /\ UNCHANGED <<attachments, mime_types, directory, prefix, batch, dirs>>
           ELSE /\ mime_types' = mt.val
                /\ directory' = dir.val
                /\ prefix' = pre.val
                /\ dirs' = dirs \cup Range(Ancestors(dir.val))
                /\ IF Parse(raw_message) = None
                   THEN /\ result' = ErrorAtom
                        /\ pc' = "done"
                        /\ UNCHANGED <<attachments, batch>>
                   ELSE /\ attachments' = get_attachments(Parse(raw_message)[1])
                        /\ batch' = filter_by_mime_type(attachments', mt.val)
                        /\ pc' = "mkdir"
                        /\ UNCHANGED result
    /\ UNCHANGED <<raw_message, opts, files, dirs0, files0, idx, filenames,
                   cleanup, err, log>>

(***************************************************************************)
(* extract_attachments_to_disk (lib.rs:158-178), up to the call of         *)
(* write_to_disk.  The three options are decoded first, each `?` returning *)
(* the decoding error at once; then the message is parsed.                 *)
(***************************************************************************)
extract_attachments_to_disk ==
    /\ pc = "call"
    /\ nif' = "extract_attachments_to_disk"
    /\ LET opts_list == DecodeOpts(opts)
           mt == get_mime_types_from_opts(opts_list)
           dir == get_directory_from_opts(opts_list)
           pre == get_prefix_from_opts(opts_list)
       IN  IF ~mt.ok \/ ~dir.ok \/ ~pre.ok
           THEN /\ result' = ErrorBadArg
                /\ pc' = "done"
                /\ UNCHANGED <<attachments, mime_types, directory, prefix, batch>>
           ELSE /\ mime_types' = mt.val
                /\ directory' = dir.val
                /\ prefix' = pre.val
                /\ IF Parse(raw_message) = None
                   THEN /\ result' = ErrorAtom
                        /\ pc' = "done"
                        /\ UNCHANGED <<attachments, batch>>
                   ELSE /\ attachments' = get_attachments(Parse(raw_message)[1])
                        /\ batch' = filter_by_mime_type(attachments', mt.val)
                        /\ pc' = "mkdir"
                        /\ UNCHANGED result
    /\ UNCHANGED <<raw_message, opts, dirs, files, dirs0, files0, idx, filenames,
                   cleanup, err, log>>

(***************************************************************************)
(* write_to_disk (lib.rs:122-148), one action for each file system call.   *)
(***************************************************************************)

\* A faulty variant: the directory is not created before writing.
CreateDirAllSkipped ==
    /\ pc = "mkdir"
    /\ pc' = "write"
    /\ UNCHANGED <<nif, raw_message, opts, dirs, files, dirs0, files0, attachments,
                   mime_types, directory, prefix, batch, idx, filenames, cleanup,
                   err, result, log>>

\* fs::create_dir_all(directory)?: every missing directory of the path is made,
\* outermost first; making one of them may fail, and the error is returned.
CreateDirAll ==
    /\ pc = "mkdir"
    /\ LET chain == Ancestors(directory)
       IN  \/ /\ dirs' = dirs \cup Range(chain)
              /\ log' = Append(log, LogEntry("create_dir_all", directory, "ok"))
              /\ pc' = "write"
              /\ UNCHANGED result
           \/ \E j \in 1 .. Len(chain) :
                /\ chain[j] \notin dirs
                /\ dirs' = dirs \cup { chain[i] : i \in 1 .. (j - 1) }
                /\ log' = Append(log, LogEntry("create_dir_all", directory, "EACCES"))
                /\ result' = ErrorTerm("EACCES")
                /\ pc' = "done"
    /\ UNCHANGED <<nif, raw_message, opts, files, dirs0, files0, attachments,
                   mime_types, directory, prefix, batch, idx, filenames, cleanup, err>>

\* format!("{}{}", prefix, attachment.name)
FileName(pre, attachment) == pre \o attachment.name

\* A faulty variant: the prefix is left out of the recorded file name.
RecordedNameNoPrefix(pre, attachment) == attachment.name

\* The name pushed on `filenames` after a successful write (lib.rs:134).
RecordedName(pre, attachment) == FileName(pre, attachment)

\* A faulty variant: after a failed write the loop goes on with the next attachment.
AfterWriteErrorContinue(e) ==
    /\ err' = Some(e)
    /\ idx' = idx + 1
    /\ UNCHANGED <<pc, cleanup, filenames>>

\* The Err(err) arm (lib.rs:136-143): the rollback loop takes `filenames`.
AfterWriteError(e) ==
    /\ err' = Some(e)
    /\ cleanup' = filenames
    /\ pc' = "rollback"
    /\ UNCHANGED <<idx, filenames>>

\* One iteration of the for loop: fs::write(&filepath, &attachment.content_bytes.0),
\* which creates or truncates the file and then writes the bytes.  It succeeds, or
\* fails before the file is opened, or fails after it was opened and part of the
\* bytes were written.
WriteAttachment ==
    /\ pc = "write"
    /\ idx <= Len(batch)
    /\ LET attachment == batch[idx]
           filename == FileName(prefix, attachment)
           filepath == Join(directory, filename)
           bytes == attachment.content_bytes
       IN  \/ /\ directory \in dirs
              /\ files' = [files EXCEPT ![filepath] = Some(bytes)]
              /\ log' = Append(log, LogEntry("write", filename, "ok"))
              /\ filenames' = Append(filenames, RecordedName(prefix, attachment))
              /\ idx' = idx + 1
              /\ UNCHANGED <<pc, cleanup, err>>
           \/ /\ LET e == IF directory \in dirs THEN "EACCES" ELSE "ENOENT"
                 IN  /\ log' = Append(log, LogEntry("write", filename, e))
                     /\ AfterWriteError(e)
              /\ UNCHANGED files
           \/ /\ directory \in dirs
              /\ \E n \in 0 .. (Len(bytes) - 1) :
                    files' = [files EXCEPT ![filepath] = Some(SubSeq(bytes, 1, n))]
              /\ log' = Append(log, LogEntry("write", filename, "ENOSPC"))
              /\ AfterWriteError("ENOSPC")
    /\ UNCHANGED <<nif, raw_message, opts, dirs, dirs0, files0, attachments,
                   mime_types, directory, prefix, batch, result>>

\* A faulty variant: the rollback removes every file of the destination directory.
RemoveFileWholeDirectory ==
    /\ pc = "rollback"
    /\ cleanup # <<>>
    /\ files' = [fp \in FilePaths |-> IF fp[1] = directory THEN None ELSE files[fp]]
    /\ log' = Append(log, LogEntry("remove_file", Head(cleanup), "ok"))
    /\ cleanup' = Tail(cleanup)
    /\ UNCHANGED <<pc, nif, raw_message, opts, dirs, dirs0, files0, attachments,
                   mime_types, directory, prefix, batch, idx, filenames, err, result>>

\* One iteration of the rollback loop: let _ = fs::remove_file(filepath).  The
\* deletion succeeds, or fails (the file is gone already, or the system refuses);
\* its result is dropped either way.
RemoveFile ==
    /\ pc = "rollback"
    /\ cleanup # <<>>
    /\ LET filepath == Join(directory, Head(cleanup))
       IN  \/ /\ files[filepath] # None
              /\ files' = [files EXCEPT ![filepath] = None]
              /\ log' = Append(log, LogEntry("remove_file", Head(cleanup), "ok"))
           \/ /\ UNCHANGED files
              /\ log' = Append(log, LogEntry("remove_file", Head(cleanup),
                                   IF files[filepath] = None THEN "ENOENT" ELSE "EBUSY"))
    /\ cleanup' = Tail(cleanup)
    /\ UNCHANGED <<pc, nif, raw_message, opts, dirs, dirs0, files0, attachments,
                   mime_types, directory, prefix, batch, idx, filenames, err, result>>

\* The error of the last failed call in the log.
LastLoggedError ==
    LET failed == SelectSeq(log, LAMBDA l : l.res # "ok")
    IN  failed[Len(failed)].res

\* A faulty variant: a failed deletion replaces the error that is returned.
ReturnErrLastError ==
    /\ pc = "rollback"
    /\ cleanup = <<>>
    /\ result' = ErrorTerm(LastLoggedError)
    /\ pc' = "done"
    /\ UNCHANGED <<nif, raw_message, opts, dirs, files, dirs0, files0, attachments,
                   mime_types, directory, prefix, batch, idx, filenames, cleanup,
                   err, log>>

\* return Err(err) (lib.rs:142), mapped to the error term at lib.rs:173.
ReturnErr ==
    /\ pc = "rollback"
    /\ cleanup = <<>>
    /\ result' = ErrorTerm(err[1])
    /\ pc' = "done"
    /\ UNCHANGED <<nif, raw_message, opts, dirs, files, dirs0, files0, attachments,
                   mime_types, directory, prefix, batch, idx, filenames, cleanup,
                   err, log>>

\* Ok(filenames) (lib.rs:147), returned as (ok, filenames) at lib.rs:172.
ReturnOk ==
    /\ pc = "write"
    /\ idx > Len(batch)
    /\ result' = OkFilenames(filenames)
    /\ pc' = "done"
    /\ UNCHANGED <<nif, raw_message, opts, dirs, files, dirs0, files0, attachments,
                   mime_types, directory, prefix, batch, idx, filenames, cleanup,
                   err, log>>

(***************************************************************************)
(* The specification of the two entry points.                              *)
(***************************************************************************)
InitLocals ==
    /\ nif = "none"
    /\ attachments = <<>>
    /\ mime_types = <<>>
    /\ directory = "."
    /\ prefix = ""
    /\ batch = <<>>
    /\ idx = 1
    /\ filenames = <<>>
    /\ cleanup = <<>>
    /\ err = None
    /\ result = NoResult
    /\ log = <<>>

Init ==
    /\ pc = "call"
    /\ raw_message \in {Malformed} \cup { WellFormed(m) : m \in Messages(MaxStoreNodes) }
    /\ opts \in OptsSet
    /\ \E fs \in FsStates :
         /\ dirs = fs.dirs
         /\ dirs0 = fs.dirs
         /\ files = FilesOf(fs)
         /\ files0 = FilesOf(fs)
    /\ InitLocals

Next ==
    \/ extract_nested_attachments
    \/ extract_attachments_to_disk
    \/ CreateDirAll
    \/ WriteAttachment
    \/ RemoveFile
    \/ ReturnErr
    \/ ReturnOk

Spec == Init /\ [][Next]_vars

(***************************************************************************)
(* The extractor alone: extract_nested_attachments on every message tree   *)
(* of at most MaxNodes parts, and on malformed input.                      *)
(***************************************************************************)
InitExtract ==
    /\ pc = "call"
    /\ raw_message \in {Malformed} \cup { WellFormed(m) : m \in Messages(MaxNodes) }
    /\ opts = Keyword(<<>>)
    /\ dirs = {"."}
    /\ dirs0 = {"."}
    /\ files = [fp \in FilePaths |-> None]
    /\ files0 = [fp \in FilePaths |-> None]
    /\ InitLocals

NextExtract == extract_nested_attachments

SpecExtract == InitExtract /\ [][NextExtract]_vars

(***************************************************************************)
(* The filter alone: filter_by_mime_type on every attachment list of at    *)
(* most MaxLen entries and every allow-list of at most MaxAllow entries.   *)
(***************************************************************************)
FilterAttachments ==
    { From(p) : p \in LeafParts } \cup
    { [name |-> "b", content_type |-> Some("text/plain"), content_bytes |-> <<>>] }

MimeStrings == {"image/png", "text/plain", "image"}

SeqsUpTo(S, n) == UNION { [1 .. k -> S] : k \in 0 .. n }

\* lib.rs:170: let filtered_attachments = filter_by_mime_type(&attachments, &mime_types)
FilterStep ==
    /\ pc = "filter"
    /\ batch' = filter_by_mime_type(attachments, mime_types)
    /\ pc' = "done"
    /\ UNCHANGED <<nif, raw_message, opts, dirs, files, dirs0, files0, attachments,
                   mime_types, directory, prefix, idx, filenames, cleanup, err,
                   result, log>>

InitFilter ==
    /\ pc = "filter"
    /\ raw_message = Malformed
    /\ opts = Keyword(<<>>)
    /\ dirs = {"."}
    /\ dirs0 = {"."}
    /\ files = [fp \in FilePaths |-> None]
    /\ files0 = [fp \in FilePaths |-> None]
    /\ nif = "none"
    /\ attachments \in SeqsUpTo(FilterAttachments, MaxLen)
    /\ mime_types \in SeqsUpTo(MimeStrings, MaxAllow)
    /\ directory = "."
    /\ prefix = ""
    /\ batch = <<>>
    /\ idx = 1
    /\ filenames = <<>>
    /\ cleanup = <<>>
    /\ err = None
    /\ result = NoResult
    /\ log = <<>>

NextFilter == FilterStep

SpecFilter == InitFilter /\ [][NextFilter]_vars

(***************************************************************************)
(* Vocabulary of the properties.                                           *)
(***************************************************************************)
Writes == SelectSeq(log, LAMBDA l : l.op = "write")
Removes == SelectSeq(log, LAMBDA l : l.op = "remove_file")
Stored == nif = "extract_attachments_to_disk"
WriteFailed == \E i \in 1 .. Len(log) : log[i].op = "write" /\ log[i].res # "ok"
FirstFailedWrite ==
    LET failed == SelectSeq(log, LAMBDA l : l.op = "write" /\ l.res # "ok")
    IN  failed[1]
FileAt(fs, filename) == fs[Join(directory, filename)]
\* The attachments the allow-list lets through.
Allowed(a, types) ==
    \/ types = <<>>
    \/ /\ a.content_type # None
       /\ \E j \in 1 .. Len(types) : types[j] = a.content_type[1]
\* Positions of the batch that are written to the file name f.
WritersOf(f) == { i \in 1 .. Len(batch) : prefix \o batch[i].name = f }
Max(S) == CHOOSE x \in S : \A y \in S : y <= x

(***************************************************************************)
(* C1.  Rollback: when a write fails in write_to_disk and the rollback     *)
(* deletions succeed, no file created by the call is left in the           *)
(* destination directory when it returns, the file of the failing write    *)
(* included.                                                               *)
(***************************************************************************)
C1_RollbackLeavesNothing ==
    (/\ pc = "done"
     /\ WriteFailed
     /\ \A i \in 1 .. Len(Removes) : Removes[i].res = "ok")
    => \A f \in FileNames : FileAt(files0, f) = None => FileAt(files, f) = None

(***************************************************************************)
(* C2.  Stop at first failure: write attempts are made in list order, one  *)
(* per attachment at most; after a failed attempt none follows, and the    *)
(* call ends with an error.                                                *)
(***************************************************************************)
C2_StopAtFirstFailure ==
    LET w == Writes
    IN  /\ Len(w) <= Len(batch)
        /\ \A i \in 1 .. Len(w) : w[i].path = prefix \o batch[i].name
        /\ \A i \in 1 .. (Len(w) - 1) : w[i].res = "ok"
        /\ WriteFailed =>
             /\ pc \in {"rollback", "done"}
             /\ idx = Len(w)
             /\ pc = "done" => result.tag = "error_term"

C2_Witness ==
    /\ pc = "done"
    /\ Len(batch) = 3
    /\ Len(Writes) = 2
    /\ Writes[1].res = "ok"
    /\ Writes[2].res # "ok"
    /\ result.tag = "error_term"

(***************************************************************************)
(* C3.  Round trip: after a successful extract-and-store, every attachment *)
(* of the written batch, also one that shares its name with another, has   *)
(* a file at directory/prefix+name holding exactly its content_bytes.      *)
(***************************************************************************)
C3_EveryAttachmentOnDisk ==
    (pc = "done" /\ Stored /\ result.tag = "ok")
    => \A i \in 1 .. Len(batch) :
          FileAt(files, prefix \o batch[i].name) = Some(batch[i].content_bytes)

(***************************************************************************)
(* C4.  Successful result: when no write fails the call returns one file   *)
(* name per attachment of the filtered batch, in order, entry i being the  *)
(* prefix followed by the name of attachment i; the batch is the           *)
(* attachments that passed the mime filter.                                *)
(***************************************************************************)
C4_SuccessfulResult ==
    /\ (pc = "done" /\ Stored /\ result.tag = "ok") =>
         /\ Len(result.names) = Len(batch)
         /\ \A i \in 1 .. Len(batch) : result.names[i] = prefix \o batch[i].name
         /\ batch = SelectSeq(attachments, LAMBDA a : Allowed(a, mime_types))
    /\ (pc = "write" /\ ~WriteFailed) =>
         /\ Len(filenames) = idx - 1
         /\ \A i \in 1 .. Len(filenames) : filenames[i] = prefix \o batch[i].name

C4_Witness ==
    /\ pc = "done"
    /\ Stored
    /\ result.tag = "ok"
    /\ result.names = <<"pa", "puntitled">>
    /\ Len(attachments) = 2

(***************************************************************************)
(* C5.  Mime filter: the output holds, in input order and each once, the   *)
(* attachments that the allow-list lets through: all of them for an empty  *)
(* allow-list, otherwise those whose content type is present and equal to  *)
(* one of the allowed strings.                                             *)
(***************************************************************************)
C5_MimeFilter ==
    pc = "done" =>
        LET kept == { i \in 1 .. Len(attachments) : Allowed(attachments[i], mime_types) }
        IN  /\ Len(batch) = Cardinality(kept)
            /\ \A i \in kept :
                 batch[Cardinality({ j \in kept : j <= i })] = attachments[i]
            /\ mime_types = <<>> => batch = attachments
            /\ mime_types # <<>> =>
                 \A k \in 1 .. Len(batch) : batch[k].content_type # None

C5_Witness ==
    /\ pc = "done"
    /\ mime_types = <<"image/png">>
    /\ Len(attachments) = 3
    /\ attachments[1].content_type = Some("text/plain")
    /\ attachments[2].content_type = Some("image/png")
    /\ attachments[3].content_type = None
    /\ batch = <<attachments[2]>>

(***************************************************************************)
(* C6.  Extraction flattening: the output of get_attachments is the leaf   *)
(* attachments of the tree in depth-first order, the leaves of a nested    *)
(* message standing where its container stands; a container is never an    *)
(* entry, and a nested message without attachments adds nothing.           *)
(***************************************************************************)
RECURSIVE LeafPaths(_)
\* The index paths from the message to each of its leaf attachments.
LeafPaths(m) ==
    UNION { IF m[i].kind = "leaf" THEN { <<i>> }
            ELSE IF m[i].kind = "message"
                 THEN { <<i>> \o q : q \in LeafPaths(m[i].message) }
                 ELSE { } : i \in 1 .. Len(m) }

RECURSIVE PartAt(_, _)
PartAt(m, path) ==
    IF Len(path) = 1 THEN m[path[1]] ELSE PartAt(m[path[1]].message, Tail(path))

\* Depth-first (lexicographic) order of two paths to different leaves.
Before(p, q) ==
    \E k \in 1 .. Len(p) :
        /\ k <= Len(q)
        /\ \A j \in 1 .. (k - 1) : p[j] = q[j]
        /\ p[k] < q[k]

C6_DepthFirstLeaves ==
    (pc = "done" /\ raw_message.wellformed) =>
        LET paths == LeafPaths(raw_message.message)
            out == result.atts
        IN  /\ result.tag = "ok"
            /\ Len(out) = Cardinality(paths)
            /\ \A p \in paths :
                 LET part == PartAt(raw_message.message, p)
                     at == out[1 + Cardinality({ q \in paths : Before(q, p) })]
                 IN  /\ at.content_bytes = part.contents
                     /\ at.name = (IF part.attachment_name = None THEN "untitled"
                                   ELSE part.attachment_name[1])
                     /\ (at.content_type = None) <=> (part.content_type = None)
            /\ \A k \in 1 .. Len(out) : out[k].content_type # Some("message/rfc822")

C6_Witness ==
    /\ pc = "done"
    /\ Len(raw_message.message) = 3
    /\ raw_message.message[1].kind = "leaf"
    /\ raw_message.message[2].kind = "message"
    /\ Len(raw_message.message[2].message) = 1
    /\ raw_message.message[2].message[1].kind = "leaf"
    /\ raw_message.message[3].kind = "leaf"
    /\ Len(result.atts) = 3
    /\ result.atts[2].content_bytes = <<3>>
    /\ result.atts[1].content_bytes = <<1, 2>>

(***************************************************************************)
(* C7.  Parse failure aborts the whole call: extract returns the generic  *)
(* parse error and no attachment list, extract-and-store returns the       *)
(* generic parse error, and neither creates the directory nor creates,     *)
(* overwrites or deletes a file.                                           *)
(***************************************************************************)
NoFileSystemEffect == dirs = dirs0 /\ files = files0 /\ log = <<>>

IllTypedOption ==
    /\ opts.is_keyword
    /\ \E i \in 1 .. Len(opts.items) :
         LET o == opts.items[i]
         IN  /\ \A j \in 1 .. (i - 1) : opts.items[j].atom # o.atom
             /\ \/ o.atom = "mime_types" /\ o.term.type # "strings"
                \/ o.atom \in {"directory", "prefix"} /\ o.term.type # "string"

C8_OriginalCausePreserved ==
    (pc = "done" /\ WriteFailed) =>
        /\ result = ErrorTerm(FirstFailedWrite.res)
        /\ result.msg = "Failed to write to disk: " \o FirstFailedWrite.res
        /\ Len(Removes) = Len(Writes) - 1
        /\ \A i \in 1 .. Len(Removes) : Removes[i].path = Writes[i].path

C8_Witness ==
    /\ pc = "done"
    /\ WriteFailed
    /\ FirstFailedWrite.res = "ENOSPC"
    /\ Len(Removes) = 2
    /\ Removes[1].res = "EBUSY"
    /\ Removes[2].res = "ok"
    /\ result.msg = "Failed to write to disk: ENOSPC"

(***************************************************************************)
(* C9.  Directory creation precedes writing: the first file system call is *)
(* create_dir_all, and the directory exists at every write; a successful   *)
(* call leaves the same file names and files whether or not the            *)
(* destination existed before; when the creation fails its error is        *)
(* returned and no write or deletion is attempted.                         *)
(***************************************************************************)
C9_DirectoryBeforeWriting ==
    /\ pc \in {"write", "rollback"} =>
         /\ directory \in dirs
         /\ Range(Ancestors(directory)) \subseteq dirs
    /\ log # <<>> => log[1].op = "create_dir_all" /\ log[1].path = directory
    /\ Len(log) > 1 => log[1].res = "ok"
    /\ \A i \in 2 .. Len(log) : log[i].op # "create_dir_all"
    /\ (pc = "done" /\ log # <<>> /\ log[1].res # "ok") =>
         /\ result = ErrorTerm(log[1].res)
         /\ files = files0
    /\ (pc = "done" /\ Stored /\ result.tag = "ok") =>
         /\ result.names = [i \in 1 .. Len(batch) |-> prefix \o batch[i].name]
         /\ \A f \in FileNames :
              FileAt(files, f) =
                 IF WritersOf(f) = {} THEN FileAt(files0, f)
                 ELSE Some(batch[Max(WritersOf(f))].content_bytes)

C9_Witness ==
    /\ pc = "done"
    /\ Stored
    /\ result.tag = "ok"
    /\ directory = "out/new"
    /\ "out" \notin dirs0
    /\ dirs = {".", "out", "out/new"}
    /\ Len(result.names) = 2
    /\ FileAt(files, "puntitled") = Some(<<1, 2>>)

(***************************************************************************)
(* C10.  Frame of the batch writer: a file differs from what it was before *)
(* the call only if it lies in the destination directory under the name of *)
(* an attachment whose write was attempted, and remove_file is only given  *)
(* names the call has written.                                             *)
(***************************************************************************)
C10_Frame ==
    /\ \A fp \in FilePaths :
         files[fp] # files0[fp] =>
            /\ fp[1] = directory
            /\ \E i \in 1 .. Len(Writes) :
                 /\ Writes[i].path = fp[2]
                 /\ fp[2] = prefix \o batch[i].name
    /\ \A i \in 1 .. Len(log) :
         log[i].op = "remove_file" =>
            \E j \in 1 .. (i - 1) :
               log[j].op = "write" /\ log[j].res = "ok" /\ log[j].path = log[i].path

\* A rolled back call: the overwritten file is gone, not restored, and a file the
\* batch did not write is still there.
C10_Witness ==
    /\ pc = "done"
    /\ WriteFailed
    /\ Len(Removes) = 1
    /\ Removes[1].res = "ok"
    /\ FileAt(files0, Removes[1].path) = Some(OldBytes)
    /\ FileAt(files, Removes[1].path) = None
    /\ \E f \in FileNames : WritersOf(f) = {} /\ FileAt(files, f) = Some(OldBytes)

====
